---- MODULE Spec2Model ----
(***************************************************************************)
(* The agent execution loop of langchain's AgentExecutor, in its two       *)
(* execution modes: AgentExecutor._call (run to completion) and            *)
(* AgentExecutorIterator.streamIterator (one value per pull).              *)
(*                                                                         *)
(* One behaviour is one executor: its constructor runs, then one _call run *)
(* is driven cycle by cycle to its end, then one iterator over the same    *)
(* executor, inputs, agent and tools is pulled until its generator ends.   *)
(* The two runs own disjoint state (the locals of _call, the fields of the *)
(* iterator), so running them one after the other loses no behaviour.      *)
(*                                                                         *)
(* The agent (plan) and the tools (call) are collaborators outside the     *)
(* executor.  The agent is deterministic: what plan returns is a function  *)
(* of the length of the history it is given, fixed the first time either   *)
(* run asks for it (agentPlan).  A tool's outcome is a function of its     *)
(* name and input (ToolCall).  The tool calls _call dispatches at once     *)
(* complete in any order (CompletionOrders).                               *)
(*                                                                         *)
(* Observers are registered: the run manager _call is given and the one    *)
(* onFirstStep obtains are defined, and each notification is counted.      *)
(***************************************************************************)
EXTENDS Integers, Sequences, FiniteSets, TLC

(* Largest maxIterations an executor is constructed with. *)
MaxIter == 2

VARIABLES
  executor,           \* the AgentExecutor's fields, as given to the constructor
  constructed,        \* "pending", "ok" (constructor returned), "threw"
  agentPlan,          \* the agent: history length -> what plan does there
  call_pc,            \* _call: "idle", "running", "returned", "threw"
  steps,              \* _call: const steps
  call_iterations,    \* _call: let iterations
  call_result,        \* _call: the AgentExecutorOutput it resolved to
  call_error,         \* _call: the error it rejected with
  call_plans,         \* _call: what each plan call of the run did, in order
  call_seen,          \* _call: the history each plan call was given, in order
  call_orders,        \* _call: the order the tool calls of each cycle completed in
  call_hooks,         \* _call: how often each hook of runManager was notified
  iter_pc,            \* streamIterator: "created", "suspended", "done", "threw"
  intermediateSteps,  \* AgentExecutorIterator.intermediateSteps
  iterations,         \* AgentExecutorIterator.iterations
  finalOutputs,       \* AgentExecutorIterator._finalOutputs
  yielded,            \* the values streamIterator has yielded, in order
  iter_error,         \* the error streamIterator threw
  iter_plans,         \* the iterator: what each plan call of the run did
  iter_seen,          \* the iterator: the history each plan call was given
  iter_returned,      \* the value streamIterator returned when it finished
  iter_hooks,         \* the iterator: how often each observer hook was notified
  second_pc,          \* a second iterator: "absent", or as iter_pc
  second_intermediateSteps,  \* its intermediateSteps
  second_iterations,  \* its iterations
  second_finalOutputs,  \* its _finalOutputs
  second_yielded,     \* the values its streamIterator has yielded
  second_error,       \* the error its streamIterator threw
  second_plans,       \* what each of its plan calls did
  second_returned,    \* the value its streamIterator returned
  second_hooks,       \* how often each of its observer hooks was notified
  packageJson,        \* checkTreeShaking: what package.json holds
  rollupOf,           \* rollup: entrypoint -> what building it does
  tree_pc,            \* checkTreeShaking: "idle", "building", "passed", "exited", "threw"
  entrypoints,        \* checkTreeShaking: const entrypoints
  entrypoint,         \* the place in entrypoints of the one being built
  logged,             \* how many of the build's log calls rollup has made
  consoleLog,         \* console.log: the original, or the function of a pass
  sideEffects,        \* checkTreeShaking: let sideEffects of the pass
  reportMap,          \* checkTreeShaking: const reportMap, in insertion order
  stdout,             \* the lines the original console.log has printed
  exitCode,           \* the codes process.exit was called with: none, or one
  builds              \* the lines logged during each build, in order

vars == << executor, constructed, agentPlan,
           call_pc, steps, call_iterations, call_result, call_error, call_plans,
           call_seen, call_orders, call_hooks,
           iter_pc, intermediateSteps, iterations, finalOutputs, yielded,
           iter_error, iter_plans, iter_seen, iter_returned, iter_hooks,
           second_pc, second_intermediateSteps, second_iterations,
           second_finalOutputs, second_yielded, second_error, second_plans,
           second_returned, second_hooks,
           packageJson, rollupOf, tree_pc, entrypoints, entrypoint, logged,
           consoleLog, sideEffects, reportMap, stdout, exitCode, builds >>

callVars == << call_pc, steps, call_iterations, call_result, call_error, call_plans,
               call_seen, call_orders, call_hooks >>

iterVars == << iter_pc, intermediateSteps, iterations, finalOutputs, yielded,
               iter_error, iter_plans, iter_seen, iter_returned, iter_hooks >>

secondVars == << second_pc, second_intermediateSteps, second_iterations,
                 second_finalOutputs, second_yielded, second_error, second_plans,
                 second_returned, second_hooks >>

treeVars == << packageJson, rollupOf, tree_pc, entrypoints, entrypoint, logged,
               consoleLog, sideEffects, reportMap, stdout, exitCode, builds >>

-----------------------------------------------------------------------------
(* Values *)

(* JavaScript's undefined, for a slot that holds a record otherwise. *)
Undefined == [undefined |-> TRUE]

(* The empty mapping {}. *)
EmptyObject == [k \in {} |-> k]

NoError == ""

(* handleParsingErrors: false, true, a fixed string, a function of the error. *)
HandleModes == {"false", "true", "string", "function"}

(* The fixed string an executor is given as handleParsingErrors. *)
FixedString == "use X"

(* The function an executor is given as handleParsingErrors. *)
HandlerFunction(e) == "handled: " \o e.message

(* agent.returnValues: the agent's declared output keys; the first is primary. *)
AgentReturnValues == << "output" >>

Tool(name, returnDirect) == [name |-> name, returnDirect |-> returnDirect]

(* The tool lists an executor is constructed with. *)
ToolsPlain == << Tool("echo", FALSE) >>

ToolsDirect == << Tool("echo", FALSE), Tool("Final", TRUE), Tool("stop", TRUE) >>

ToolLists == {ToolsPlain, ToolsDirect}

(* String.prototype.toLowerCase on the tool names of the model. *)
ToLowerCase(s) ==
  CASE s = "Echo" -> "echo"
    [] s = "Final" -> "final"
    [] s = "_Exception" -> "_exception"
    [] OTHER -> s

Action(tool, toolInput) == [tool |-> tool, toolInput |-> toolInput, log |-> "thought"]

(* The actions the agent may ask for: a registered tool by its exact name,  *)
(* by a name differing in case, an unregistered tool; an input the tool     *)
(* accepts, one it cannot parse, one its implementation fails on.           *)
AgentActions ==
  { Action("echo", "hi"), Action("Echo", "hi"),
    Action("echo", "malformed"), Action("echo", "crash"),
    Action("Final", "hi"), Action("final", "hi"),
    Action("stop", "hi"), Action("stop", "malformed"), Action("stop", "crash"),
    Action("nope", "hi") }

(* The batches a multi-action agent may ask for. *)
AgentBatches ==
  { << Action("echo", "hi"), Action("nope", "hi") >>,
    << Action("nope", "hi"), Action("echo", "hi") >>,
    << Action("echo", "hi"), Action("echo", "malformed") >>,
    << Action("echo", "crash"), Action("echo", "hi") >>,
    << Action("Echo", "hi") >> }

(* The OutputParserExceptions plan may raise. *)
OutputParserExceptions ==
  { [message |-> "Could not parse LLM output", sendToLLM |-> FALSE,
     observation |-> "", llmOutput |-> ""],
    [message |-> "Bad format", sendToLLM |-> TRUE,
     observation |-> "Follow the format", llmOutput |-> "raw text"] }

ToolInputParsingException == [message |-> "Received tool input did not match expected schema"]

AgentFinish(returnValues) == [returnValues |-> returnValues, log |-> ""]

(* What one plan call can do: return a Finish, return action(s), or raise. *)
PlanFinish == [kind |-> "finish", finish |-> AgentFinish([output |-> "done"])]

PlanActions(actions) == [kind |-> "actions", actions |-> actions]

PlanRaise(e) == [kind |-> "raise", error |-> e]

PlanOutcomes(agentType) ==
  {PlanFinish}
    \cup {PlanRaise(e) : e \in OutputParserExceptions}
    \cup (IF agentType = "single"
            THEN {PlanActions(<< a >>) : a \in AgentActions}
            ELSE {PlanActions(b) : b \in AgentBatches})

-----------------------------------------------------------------------------
(* The collaborators: tools and agent *)

(* tool.call(input): the observation, or one of the two failures a tool has. *)
(* The tool "echo" returns its input unchanged.                              *)
ToolCall(tool, input) ==
  CASE input = "malformed" -> [kind |-> "inputError", error |-> ToolInputParsingException]
    [] input = "crash" -> [kind |-> "error", error |-> [message |-> "tool failed"]]
    [] OTHER -> [kind |-> "ok",
                 observation |-> IF tool.name = "echo" THEN input
                                 ELSE tool.name \o " result for " \o input]

(* new ExceptionTool().call(query): returns the query. *)
ExceptionToolCall(query) == query

(* agent.prepareForOutput(returnValues, steps): no additional fields. *)
PrepareForOutput(returnValues, stepsSoFar) == EmptyObject

StoppedMessage == "Agent stopped due to iteration limit or time limit."

(* agent.returnStoppedResponse(earlyStoppingMethod, steps, inputs). *)
ReturnStoppedResponse(earlyStoppingMethod, stepsSoFar) ==
  IF earlyStoppingMethod = "force"
    THEN [kind |-> "finish",
          finish |-> AgentFinish([k \in {AgentReturnValues[1]} |-> StoppedMessage])]
    ELSE [kind |-> "throw", error |-> "Invalid stopping method"]

(* chain.prepOutputs(inputs, outputs, returnOnlyOutputs = true). *)
PrepOutputs(outputs) == outputs

-----------------------------------------------------------------------------
(* AgentExecutor *)

(* The constructor's check, looking at the first tool only. *)
ConstructorThrowsFirstToolOnly(input) ==
  /\ input.agentType = "multi"
  /\ Len(input.tools) > 0
  /\ input.tools[1].returnDirect

(* The constructor's check: a multi-action agent takes no returnDirect tool. *)
ConstructorThrows(input) ==
  /\ input.agentType = "multi"
  /\ \E i \in 1..Len(input.tools) : input.tools[i].returnDirect

(* shouldContinue with the comparison off by one. *)
shouldContinueInclusive(n) == n <= executor.maxIterations

(* shouldContinue(iterations).  maxIterations is a number in every executor *)
(* the constructor returns (an absent one is replaced by the default), so   *)
(* the test for undefined never decides.                                    *)
shouldContinue(n) == n < executor.maxIterations

(* The catch around agent.plan: an OutputParserException becomes an action *)
(* on the tool "_Exception", or is rethrown, per handleParsingErrors.       *)
HandleOutputParserException(e) ==
  LET mode == executor.handleParsingErrors
      exceptionAction(observation, text) ==
        [kind |-> "actions",
         actions |-> << [tool |-> "_Exception", toolInput |-> observation, log |-> text] >>]
  IN CASE mode = "true" ->
            IF e.sendToLLM THEN exceptionAction(e.observation, e.llmOutput)
            ELSE exceptionAction("Invalid or incomplete response", e.message)
       [] mode = "string" -> exceptionAction(FixedString, e.message)
       [] mode = "function" -> exceptionAction(HandlerFunction(e), e.message)
       [] OTHER -> [kind |-> "throw", error |-> "OutputParserException"]

(* try { output = await this.agent.plan(...) } catch ... *)
PlanOrRecover(outcome) ==
  IF outcome.kind = "raise" THEN HandleOutputParserException(outcome.error)
  ELSE outcome

(* The catch around tool.call, recovering also when handleParsingErrors *)
(* is false.                                                            *)
HandleToolInputParsingExceptionAlways(action, e) ==
  [kind |-> "step",
   step |-> [action |-> action,
             observation |-> ExceptionToolCall(
               "Invalid or incomplete tool input. Please try again.")]]

(* The catch around tool.call for a ToolInputParsingException. *)
HandleToolInputParsingException(action, e) ==
  LET mode == executor.handleParsingErrors
      step(observation) ==
        [kind |-> "step",
         step |-> [action |-> action, observation |-> ExceptionToolCall(observation)]]
  IN CASE mode = "true" -> step("Invalid or incomplete tool input. Please try again.")
       [] mode = "string" -> step(FixedString)
       [] mode = "function" -> step(HandlerFunction(e))
       [] OTHER -> [kind |-> "throw", error |-> "ToolInputParsingException"]

RECURSIVE JoinNames(_)
(* Array.prototype.join(", "). *)
JoinNames(names) ==
  IF Len(names) = 0 THEN ""
  ELSE IF Len(names) = 1 THEN names[1]
  ELSE names[1] \o ", " \o JoinNames(Tail(names))

(* Object.fromEntries(this.tools.map((t) => [t.name.toLowerCase(), t]))[key]: *)
(* the tools under that key, the last of which is the entry.                  *)
toolsByName(key) ==
  SelectSeq(executor.tools, LAMBDA t : ToLowerCase(t.name) = key)

(* _call, the callback of actions.map: one action to its step. *)
CallDispatch(action) ==
  LET found == toolsByName(ToLowerCase(action.tool))
      isException == action.tool = "_Exception"
      hasTool == isException \/ Len(found) > 0
      result == IF isException
                  THEN [kind |-> "ok", observation |-> ExceptionToolCall(action.toolInput)]
                  ELSE ToolCall(found[Len(found)], action.toolInput)
  IN IF ~hasTool
       THEN [kind |-> "step",
             step |-> [action |-> action,
                       observation |-> action.tool \o " is not a valid tool, try another one."]]
     ELSE IF result.kind = "ok"
       THEN [kind |-> "step", step |-> [action |-> action, observation |-> result.observation]]
     ELSE IF result.kind = "inputError"
       THEN HandleToolInputParsingException(action, result.error)
     ELSE \* any other error is caught and dropped: observation ?? ""
          [kind |-> "step", step |-> [action |-> action, observation |-> ""]]

(* The orders n concurrent callbacks can complete in: order[k] is the index *)
(* of the k-th to complete.                                                 *)
CompletionOrders(n) ==
  {order \in [1..n -> 1..n] : \A i, j \in 1..n : order[i] = order[j] => i = j}

(* Promise.all resolving with the values in the order they were produced. *)
PromiseAllInCompletionOrder(results, order) ==
  LET n == Len(results)
      rejected == {k \in 1..n : results[order[k]].kind = "throw"}
      first == CHOOSE k \in rejected : \A j \in rejected : k <= j
  IN IF rejected # {}
       THEN [kind |-> "throw", error |-> results[order[first]].error]
       ELSE [kind |-> "steps", steps |-> [k \in 1..n |-> results[order[k]].step]]

(* Promise.all over callbacks that complete in the given order: rejects with *)
(* the first rejection to happen, else resolves with the values in the order *)
(* of the callbacks.                                                          *)
PromiseAll(results, order) ==
  LET n == Len(results)
      rejected == {k \in 1..n : results[order[k]].kind = "throw"}
      first == CHOOSE k \in rejected : \A j \in rejected : k <= j
  IN IF rejected # {}
       THEN [kind |-> "throw", error |-> results[order[first]].error]
       ELSE [kind |-> "steps", steps |-> [i \in 1..n |-> results[i].step]]

(* _call: await Promise.all(actions.map(...)): the steps in the order of the *)
(* actions, or the rejection of a callback.                                   *)
CallNewSteps(actions, order) ==
  PromiseAll([i \in 1..Len(actions) |-> CallDispatch(actions[i])], order)

(* _call: lastTool?.returnDirect for the last step of the history. *)
CallLastToolReturnsDirect(history) ==
  LET lastStep == history[Len(history)]
      found == toolsByName(ToLowerCase(lastStep.action.tool))
  IN Len(found) > 0 /\ found[Len(found)].returnDirect

(* _call: getOutput(finishStep), closed over steps. *)
getOutput(finishStep, history) ==
  LET returnValues == finishStep.returnValues
      additional == PrepareForOutput(returnValues, history)
  IN IF executor.returnIntermediateSteps
       THEN additional @@ [intermediateSteps |-> history] @@ returnValues
       ELSE additional @@ returnValues

(* _call: the new steps put in front of the history. *)
PushFront(history, newSteps) == newSteps \o history

(* _call: steps.push(...newSteps). *)
Push(history, newSteps) == history \o newSteps

(* _call: getOutput(finishStep), how often it notifies handleAgentEnd: the *)
(* return under returnIntermediateSteps comes before the notification.     *)
getOutputHandleAgentEnd == IF executor.returnIntermediateSteps THEN 0 ELSE 1

(* _call: one pass of the while loop's body from the state (history, n), *)
(* given what plan did and the order the tool calls complete in: the      *)
(* locals and the promise's state after it, the notifications made in it. *)
CallLoopBody(outcome, history, n, order) ==
  LET output == PlanOrRecover(outcome)
      rejected(e) == [pc |-> "threw", steps |-> history, iterations |-> n,
                      result |-> Undefined, error |-> e, handleAgentEnd |-> 0]
      resolved(finish, h) == [pc |-> "returned", steps |-> h, iterations |-> n,
                              result |-> getOutput(finish, h), error |-> NoError,
                              handleAgentEnd |-> getOutputHandleAgentEnd]
  IN IF output.kind = "throw" THEN rejected(output.error)
     ELSE IF output.kind = "finish" THEN resolved(output.finish, history)
     ELSE LET newSteps == CallNewSteps(output.actions, order)
              pushed == Push(history, newSteps.steps)
              lastStep == pushed[Len(pushed)]
          IN IF newSteps.kind = "throw" THEN rejected(newSteps.error)
             ELSE IF CallLastToolReturnsDirect(pushed)
               THEN resolved(
                      AgentFinish([k \in {AgentReturnValues[1]} |-> lastStep.observation]),
                      pushed)
             ELSE [pc |-> "running", steps |-> pushed, iterations |-> n + 1,
                   result |-> Undefined, error |-> NoError, handleAgentEnd |-> 0]

(* _call after the loop, asking for the "force" response whatever the *)
(* executor's earlyStoppingMethod is.                                  *)
CallAfterLoopForced(history, n) ==
  LET finish == ReturnStoppedResponse("force", history)
  IN [pc |-> "returned", steps |-> history, iterations |-> n,
      result |-> getOutput(finish.finish, history), error |-> NoError,
      handleAgentEnd |-> getOutputHandleAgentEnd]

(* _call after the loop: returnStoppedResponse, then getOutput. *)
CallAfterLoop(history, n) ==
  LET finish == ReturnStoppedResponse(executor.earlyStoppingMethod, history)
  IN IF finish.kind = "throw"
       THEN [pc |-> "threw", steps |-> history, iterations |-> n,
             result |-> Undefined, error |-> finish.error, handleAgentEnd |-> 0]
       ELSE [pc |-> "returned", steps |-> history, iterations |-> n,
             result |-> getOutput(finish.finish, history), error |-> NoError,
             handleAgentEnd |-> getOutputHandleAgentEnd]

(* _takeNextStep, the body of the for loop: one action to its step.  The    *)
(* tool is looked up by the action's name as written, in the map the caller *)
(* passes (the iterator's nameToToolMap, keyed by each tool's name).        *)
TakeNextStepDispatch(nameToolMap, action) ==
  LET found == SelectSeq(nameToolMap, LAMBDA t : t.name = action.tool)
      result == ToolCall(found[Len(found)], action.toolInput)
      names == [i \in 1..Len(nameToolMap) |-> nameToolMap[i].name]
      step(observation) == [kind |-> "step",
                            step |-> [action |-> action, observation |-> observation]]
  IN IF Len(found) = 0
       THEN step(action.tool \o " is not a valid tool, try another available tool: "
                   \o JoinNames(names))
     ELSE IF result.kind = "ok" THEN step(result.observation)
     ELSE IF result.kind = "inputError"
       THEN HandleToolInputParsingException(action, result.error)
     ELSE step("")  \* any other error is caught and dropped: observation stays ""

(* _takeNextStep: a Finish, the new steps in the order of the actions, or *)
(* the error of the first action that throws.                             *)
TakeNextStep(nameToolMap, outcome) ==
  LET output == PlanOrRecover(outcome)
  IN IF output.kind # "actions" THEN output
     ELSE LET results == [i \in 1..Len(output.actions) |->
                            TakeNextStepDispatch(nameToolMap, output.actions[i])]
              thrown == {i \in 1..Len(results) : results[i].kind = "throw"}
              first == CHOOSE i \in thrown : \A j \in thrown : i <= j
          IN IF thrown # {} THEN [kind |-> "throw", error |-> results[first].error]
             ELSE [kind |-> "steps",
                   steps |-> [i \in 1..Len(results) |-> results[i].step]]

(* _return with the history attached whatever returnIntermediateSteps is. *)
ReturnAlwaysWithHistory(output, history) ==
  [intermediateSteps |-> history] @@ output.returnValues

(* _return(output, intermediateSteps): the finish's returnValues, with the *)
(* history under intermediateSteps when returnIntermediateSteps is set.    *)
Return(output, history) ==
  IF executor.returnIntermediateSteps
    THEN [intermediateSteps |-> history] @@ output.returnValues
    ELSE output.returnValues

(* _getToolReturn(nextStepOutput): the Finish of a returnDirect tool, in a *)
(* sequence of at most one; null is the empty sequence.                    *)
GetToolReturn(nextStep) ==
  LET found == toolsByName(nextStep.action.tool)
  IN IF Len(found) > 0 /\ found[Len(found)].returnDirect
       THEN << AgentFinish([k \in {AgentReturnValues[1]} |-> nextStep.observation]) >>
       ELSE << >>

-----------------------------------------------------------------------------
(* AgentExecutorIterator *)

(* get nameToToolMap: the executor's tools, each under its own name. *)
nameToToolMap == executor.tools

(* setFinalOutputs(value) taking every value for an absent one: the final *)
(* outputs are cleared and never set.                                     *)
SetFinalOutputsCleared(value) == Undefined

(* setFinalOutputs(value). *)
SetFinalOutputs(value) == PrepOutputs(value)

(* _processNextStepOutput(nextStepOutput): the iterator's history and final *)
(* outputs after it, the value it returns, and the notifications it makes   *)
(* (handleAgentEnd inside _return, handleChainEnd after it).                *)
ProcessNextStepOutput(nextStepOutput, history) ==
  IF nextStepOutput.kind = "finish"
    THEN LET output == Return(nextStepOutput.finish, history)
         IN [intermediateSteps |-> history,
             finalOutputs |-> SetFinalOutputs(output),
             output |-> output,
             handleAgentEnd |-> 1,
             handleChainEnd |-> 1]
    ELSE LET concat == history \o nextStepOutput.steps
             toolReturn == IF Len(nextStepOutput.steps) = 1
                             THEN GetToolReturn(nextStepOutput.steps[1])
                             ELSE << >>
         IN [intermediateSteps |-> concat,
             finalOutputs |-> IF Len(toolReturn) > 0
                                THEN SetFinalOutputs(Return(toolReturn[1], concat))
                                ELSE Undefined,
             output |-> [intermediateSteps |-> nextStepOutput.steps],
             handleAgentEnd |-> IF Len(toolReturn) > 0 THEN 1 ELSE 0,
             handleChainEnd |-> IF Len(toolReturn) > 0 THEN 1 ELSE 0]

(* _stop(): the stopped response as the final outputs, or the agent's error; *)
(* _return notifies handleAgentEnd, and nothing notifies handleChainEnd.     *)
Stop(history) ==
  LET output == ReturnStoppedResponse(executor.earlyStoppingMethod, history)
  IN IF output.kind = "throw" THEN output
     ELSE [kind |-> "return", output |-> Return(output.finish, history),
           handleAgentEnd |-> 1, handleChainEnd |-> 0]

(* _callNext's first test: if (this.finalOutputs), with the test left out. *)
FinalOutputsNeverReached(outputs) == FALSE

(* _callNext's first test: if (this.finalOutputs) throw "Final outputs *)
(* already reached: ...".                                               *)
FinalOutputsReached(outputs) == outputs # Undefined

(* onFirstStep(), called while this.iterations is 0: handleChainStart is *)
(* notified and its run manager kept.                                    *)
OnFirstStep(hooks, n) ==
  IF n = 0 THEN [hooks EXCEPT !.handleChainStart = @ + 1] ELSE hooks

(* The hooks after the notifications a step of the iterator made. *)
Notified(hooks, made) ==
  [hooks EXCEPT !.handleAgentEnd = @ + made.handleAgentEnd,
                !.handleChainEnd = @ + made.handleChainEnd]

-----------------------------------------------------------------------------
(* checkTreeShaking.  A string is the sequence of its pieces: a piece is a *)
(* run of characters that the program never looks into.                    *)

(* Most log calls rollup makes during one build. *)
MaxLogs == 2

(* The module paths the exports of a package.json name. *)
Paths == {"./index.js", "./utils.js"}

ExportString(key, path) == [key |-> key, type |-> "string", path |-> path]

ExportImport(key, path) == [key |-> key, type |-> "import", path |-> path]

(* An export given as an object that has no import condition. *)
ExportRequire(key, path) == [key |-> key, type |-> "require", path |-> path]

(* The package.json files: without exports; exporting nothing but itself; *)
(* two entrypoints; one module exported under two keys, and one export    *)
(* without an import condition.                                           *)
PackageJSONs ==
  { [hasExports |-> FALSE, exports |-> << >>],
    [hasExports |-> TRUE,
     exports |-> << ExportString("./package.json", "./package.json") >>],
    [hasExports |-> TRUE,
     exports |-> << ExportImport(".", "./index.js"),
                    ExportString("./utils", "./utils.js"),
                    ExportString("./package.json", "./package.json") >>],
    [hasExports |-> TRUE,
     exports |-> << ExportString(".", "./index.js"),
                    ExportImport("./index", "./index.js"),
                    ExportRequire("./legacy", "./utils.js") >>] }

FirstSideEffectIn == << "First side effect in" >>

(* The argument lists rollup calls console.log with: the marked line, the *)
(* marked line indented, the marked line in two arguments, a line that    *)
(* holds the mark further on, no argument at all.                         *)
LogCalls ==
  { << << "First side effect in", " ", "./a.js" >> >>,
    << << " ", " ", "First side effect in", " ", "./b.js" >> >>,
    << << "First side effect in" >>, << "./c.js" >> >>,
    << << "note:", " ", "First side effect in", " ", "./d.js" >> >>,
    << >> }

(* What rollup(...) does for one entrypoint: it makes log calls and *)
(* resolves, or it rejects.                                         *)
RollupOutcomes ==
  {[kind |-> "resolves", calls |-> calls] :
     calls \in UNION {[1..n -> LogCalls] : n \in 0..MaxLogs}}
    \cup {[kind |-> "rejects", calls |-> << >>]}

(* rollup(...) for an entrypoint: the same for the same module. *)
Rollup(path) ==
  IF path \in DOMAIN rollupOf THEN {rollupOf[path]} ELSE RollupOutcomes

RECURSIVE Join(_, _)
(* Array.prototype.join(separator) on strings. *)
Join(strings, separator) ==
  IF Len(strings) = 0 THEN << >>
  ELSE IF Len(strings) = 1 THEN strings[1]
  ELSE strings[1] \o separator \o Join(Tail(strings), separator)

IsWhiteSpace(piece) == piece \in {" ", "\n"}

RECURSIVE TrimStart(_)
TrimStart(string) ==
  IF Len(string) > 0 /\ IsWhiteSpace(string[1]) THEN TrimStart(Tail(string))
  ELSE string

RECURSIVE TrimEnd(_)
TrimEnd(string) ==
  IF Len(string) > 0 /\ IsWhiteSpace(string[Len(string)])
    THEN TrimEnd(SubSeq(string, 1, Len(string) - 1))
  ELSE string

(* String.prototype.trim. *)
Trim(string) == TrimEnd(TrimStart(string))

(* String.prototype.startsWith. *)
StartsWith(string, prefix) ==
  Len(string) >= Len(prefix) /\ SubSeq(string, 1, Len(prefix)) = prefix

(* listEntrypoints(): the string exports and the import conditions, in the *)
(* order of the exports, "./package.json" left out; throws without exports.*)
ListEntrypoints(package) ==
  LET kept == SelectSeq(package.exports,
                        LAMBDA e : e.key # "./package.json"
                                     /\ e.type \in {"string", "import"})
  IN IF ~package.hasExports
       THEN [kind |-> "throw", error |-> "No exports found in package.json"]
       ELSE [kind |-> "return", value |-> [i \in 1..Len(kept) |-> kept[i].path]]

OriginalConsoleLog == [kind |-> "original", pass |-> 0]

(* The function a pass of the loop puts in console.log. *)
PassConsoleLog(pass) == [kind |-> "pass", pass |-> pass]

(* The function of a pass, testing the line as logged. *)
CollectUntrimmed(collected, args) ==
  LET line == IF Len(args) > 0 THEN Join(args, << " " >>) ELSE << >>
  IN IF StartsWith(line, FirstSideEffectIn) THEN collected \o line \o << "\n" >>
     ELSE collected

(* The function of a pass, called with args: sideEffects after the call. *)
Collect(collected, args) ==
  LET line == IF Len(args) > 0 THEN Join(args, << " " >>) ELSE << >>
  IN IF StartsWith(Trim(line), FirstSideEffectIn) THEN collected \o line \o << "\n" >>
     ELSE collected

(* Map.prototype.set: a key already there keeps its place. *)
MapSet(map, key, value) ==
  IF \E i \in 1..Len(map) : map[i].key = key
    THEN [i \in 1..Len(map) |->
            IF map[i].key = key THEN [key |-> key, value |-> value] ELSE map[i]]
    ELSE Append(map, [key |-> key, value |-> value])

RECURSIVE ReportLines(_)
(* The loop over reportMap: the lines it hands to console.log. *)
ReportLines(map) ==
  IF Len(map) = 0 THEN << >>
  ELSE (IF map[1].value.hasSideEffects
          THEN << << "---------------------------------" >>,
                  << "Tree shaking failed for ", map[1].key >>,
                  map[1].value.log >>
          ELSE << >>)
         \o ReportLines(Tail(map))

-----------------------------------------------------------------------------
(* The state machine *)

ExecutorInputs ==
  [ agentType : {"single", "multi"},
    tools : ToolLists,
    maxIterations : 0..MaxIter,
    handleParsingErrors : HandleModes,
    returnIntermediateSteps : BOOLEAN,
    earlyStoppingMethod : {"force", "generate"} ]

(* No run of an executor has started. *)
NoRun ==
  /\ constructed = "pending"
  /\ agentPlan = EmptyObject
  /\ call_pc = "idle"
  /\ steps = << >>
  /\ call_iterations = 0
  /\ call_result = Undefined
  /\ call_error = NoError
  /\ call_plans = << >>
  /\ call_seen = << >>
  /\ call_orders = << >>
  /\ call_hooks = [handleAgentEnd |-> 0]
  /\ iter_pc = "created"
  /\ intermediateSteps = << >>
  /\ iterations = 0
  /\ finalOutputs = Undefined
  /\ yielded = << >>
  /\ iter_error = NoError
  /\ iter_plans = << >>
  /\ iter_seen = << >>
  /\ iter_returned = Undefined
  /\ iter_hooks = [handleChainStart |-> 0, handleAgentEnd |-> 0,
                   handleChainEnd |-> 0, handleChainError |-> 0]
  /\ second_intermediateSteps = << >>
  /\ second_iterations = 0
  /\ second_finalOutputs = Undefined
  /\ second_yielded = << >>
  /\ second_error = NoError
  /\ second_plans = << >>
  /\ second_returned = Undefined
  /\ second_hooks = [handleChainStart |-> 0, handleAgentEnd |-> 0,
                     handleChainEnd |-> 0, handleChainError |-> 0]

(* checkTreeShaking has not been called. *)
TreeIdle ==
  /\ tree_pc = "idle"
  /\ rollupOf = EmptyObject
  /\ entrypoints = << >>
  /\ entrypoint = 0
  /\ logged = 0
  /\ consoleLog = OriginalConsoleLog
  /\ sideEffects = << >>
  /\ reportMap = << >>
  /\ stdout = << >>
  /\ exitCode = << >>
  /\ builds = << >>

(* An executor not yet constructed; no run of it has started. *)
InitRun ==
  /\ executor \in ExecutorInputs
  /\ NoRun
  /\ packageJson = [hasExports |-> FALSE, exports |-> << >>]
  /\ TreeIdle

(* One _call run, then one iterator. *)
Init == InitRun /\ second_pc = "absent"

(* No _call run; two iterators made by two calls of _streamIterator, on an *)
(* executor whose handleParsingErrors is a boolean.                        *)
InitTwo ==
  /\ InitRun
  /\ executor.handleParsingErrors \in {"false", "true"}
  /\ second_pc = "created"

(* new AgentExecutor(input) *)
Constructor ==
  /\ constructed = "pending"
  /\ constructed' = IF ConstructorThrows(executor) THEN "threw" ELSE "ok"
  /\ UNCHANGED << treeVars, executor, agentPlan, callVars, iterVars, secondVars >>

(* agent.plan(history, ...): what the agent does with a history of this length. *)
Plan(history) ==
  IF Len(history) \in DOMAIN agentPlan THEN {agentPlan[Len(history)]}
  ELSE PlanOutcomes(executor.agentType)

(* The number of tool calls a cycle makes after this plan call. *)
ActionCount(outcome) ==
  LET output == PlanOrRecover(outcome)
  IN IF output.kind = "actions" THEN Len(output.actions) ELSE 0

(* _call is entered: steps = [], iterations = 0. *)
Call ==
  /\ constructed = "ok"
  /\ call_pc = "idle"
  /\ call_pc' = "running"
  /\ steps' = << >>
  /\ call_iterations' = 0
  /\ UNCHANGED << treeVars, executor, constructed, agentPlan, call_result, call_error,
                  call_plans, call_seen, call_orders, call_hooks, iterVars,
                  secondVars >>

(* _call: one pass of while (this.shouldContinue(iterations)) { ... } *)
CallCycle ==
  /\ call_pc = "running"
  /\ shouldContinue(call_iterations)
  /\ \E outcome \in Plan(steps) :
       \E order \in CompletionOrders(ActionCount(outcome)) :
         LET after == CallLoopBody(outcome, steps, call_iterations, order)
         IN /\ agentPlan' = agentPlan @@ (Len(steps) :> outcome)
            /\ call_plans' = Append(call_plans, outcome)
            /\ call_seen' = Append(call_seen, steps)
            /\ call_orders' = Append(call_orders, order)
            /\ call_pc' = after.pc
            /\ steps' = after.steps
            /\ call_iterations' = after.iterations
            /\ call_result' = after.result
            /\ call_error' = after.error
            /\ call_hooks' = [call_hooks EXCEPT
                                !.handleAgentEnd = @ + after.handleAgentEnd]
  /\ UNCHANGED << treeVars, executor, constructed, iterVars, secondVars >>

(* _call: the loop is left because shouldContinue is false. *)
CallStopped ==
  /\ call_pc = "running"
  /\ ~shouldContinue(call_iterations)
  /\ LET after == CallAfterLoop(steps, call_iterations)
     IN /\ call_pc' = after.pc
        /\ steps' = after.steps
        /\ call_iterations' = after.iterations
        /\ call_result' = after.result
        /\ call_error' = after.error
        /\ call_hooks' = [call_hooks EXCEPT
                            !.handleAgentEnd = @ + after.handleAgentEnd]
  /\ UNCHANGED << treeVars, executor, constructed, agentPlan, call_plans, call_seen,
                  call_orders, iterVars, secondVars >>

CallSettled == call_pc \in {"returned", "threw"}

(* The first iterator can be pulled: after the _call run, or beside a *)
(* second iterator.                                                  *)
IterLive ==
  /\ constructed = "ok"
  /\ CallSettled \/ second_pc # "absent"
  /\ iter_pc \in {"created", "suspended"}

SecondLive == constructed = "ok" /\ second_pc \in {"created", "suspended"}

(* The fields of an iterator that a pull writes. *)
IterFields ==
  [intermediateSteps |-> intermediateSteps, iterations |-> iterations,
   finalOutputs |-> finalOutputs]

SecondFields ==
  [intermediateSteps |-> second_intermediateSteps, iterations |-> second_iterations,
   finalOutputs |-> second_finalOutputs]

(* The three fields kept once for the class: what one instance writes is *)
(* what every instance holds.                                            *)
FieldsOfClass(own, written) == written

(* intermediateSteps, iterations and _finalOutputs are fields of each     *)
(* instance and _streamIterator makes a new instance at each call: the    *)
(* fields an instance holds after a pull on another instance wrote its.   *)
FieldsOfInstance(own, written) == own

(* What a pull on the first iterator leaves of the second. *)
SecondAfterPull ==
  LET fields == FieldsOfInstance(SecondFields, IterFields')
  IN /\ second_intermediateSteps' = fields.intermediateSteps
     /\ second_iterations' = fields.iterations
     /\ second_finalOutputs' = fields.finalOutputs
     /\ UNCHANGED << second_pc, second_yielded, second_error, second_plans,
                     second_returned, second_hooks >>

(* What a pull on the second iterator leaves of the first. *)
IterAfterPull ==
  LET fields == FieldsOfInstance(IterFields, SecondFields')
  IN /\ intermediateSteps' = fields.intermediateSteps
     /\ iterations' = fields.iterations
     /\ finalOutputs' = fields.finalOutputs
     /\ UNCHANGED << iter_pc, yielded, iter_error, iter_plans, iter_seen,
                     iter_returned, iter_hooks >>

(* One pull of streamIterator that finds the final outputs set: _callNext  *)
(* throws "Final outputs already reached", which the generator catches and *)
(* answers by returning the final outputs.                                 *)
PullFinal ==
  /\ IterLive
  /\ FinalOutputsReached(finalOutputs)
  /\ iter_pc' = "done"
  /\ iter_returned' = finalOutputs
  /\ iter_hooks' = OnFirstStep(iter_hooks, iterations)
  /\ UNCHANGED << treeVars, executor, constructed, agentPlan, callVars, intermediateSteps,
                  iterations, finalOutputs, yielded, iter_error, iter_plans,
                  iter_seen >>
  /\ SecondAfterPull

(* One pull that finds the budget used up: _callNext returns _stop(); an *)
(* error of _stop is reported to handleChainError and thrown.            *)
PullStop ==
  /\ IterLive
  /\ ~FinalOutputsReached(finalOutputs)
  /\ ~shouldContinue(iterations)
  /\ LET stopped == Stop(intermediateSteps)
         started == OnFirstStep(iter_hooks, iterations)
     IN IF stopped.kind = "throw"
          THEN /\ iter_pc' = "threw"
               /\ iter_error' = stopped.error
               /\ iter_hooks' = [started EXCEPT !.handleChainError = @ + 1]
               /\ UNCHANGED << finalOutputs, yielded >>
          ELSE /\ iter_pc' = "suspended"
               /\ finalOutputs' = SetFinalOutputs(stopped.output)
               /\ yielded' = Append(yielded, stopped.output)
               /\ iter_hooks' = Notified(started, stopped)
               /\ UNCHANGED iter_error
  /\ UNCHANGED << treeVars, executor, constructed, agentPlan, callVars, intermediateSteps,
                  iterations, iter_plans, iter_seen, iter_returned >>
  /\ SecondAfterPull

(* One pull that runs a cycle: _executeNextStep, _processNextStepOutput, *)
(* updateIterations, and the yield of what _callNext returned; an error  *)
(* of the cycle is reported to handleChainError and thrown.              *)
PullStep ==
  /\ IterLive
  /\ ~FinalOutputsReached(finalOutputs)
  /\ shouldContinue(iterations)
  /\ \E outcome \in Plan(intermediateSteps) :
       LET nextStepOutput == TakeNextStep(nameToToolMap, outcome)
           after == ProcessNextStepOutput(nextStepOutput, intermediateSteps)
           started == OnFirstStep(iter_hooks, iterations)
       IN /\ agentPlan' = agentPlan @@ (Len(intermediateSteps) :> outcome)
          /\ iter_plans' = Append(iter_plans, outcome)
          /\ iter_seen' = Append(iter_seen, intermediateSteps)
          /\ IF nextStepOutput.kind = "throw"
               THEN /\ iter_pc' = "threw"
                    /\ iter_error' = nextStepOutput.error
                    /\ iter_hooks' = [started EXCEPT !.handleChainError = @ + 1]
                    /\ UNCHANGED << intermediateSteps, iterations, finalOutputs, yielded >>
               ELSE /\ iter_pc' = "suspended"
                    /\ intermediateSteps' = after.intermediateSteps
                    /\ finalOutputs' = after.finalOutputs
                    /\ iterations' = iterations + 1
                    /\ yielded' = Append(yielded, after.output)
                    /\ iter_hooks' = Notified(started, after)
                    /\ UNCHANGED iter_error
  /\ UNCHANGED << treeVars, executor, constructed, callVars, iter_returned >>
  /\ SecondAfterPull

Next ==
  \/ Constructor
  \/ Call
  \/ CallCycle
  \/ CallStopped
  \/ PullFinal
  \/ PullStop
  \/ PullStep

Spec == Init /\ [][Next]_vars

(* The pulls of the second iterator: the same code on its own instance. *)
SecondPullFinal ==
  /\ SecondLive
  /\ FinalOutputsReached(second_finalOutputs)
  /\ second_pc' = "done"
  /\ second_returned' = second_finalOutputs
  /\ second_hooks' = OnFirstStep(second_hooks, second_iterations)
  /\ UNCHANGED << treeVars, executor, constructed, agentPlan, callVars,
                  second_intermediateSteps, second_iterations, second_finalOutputs,
                  second_yielded, second_error, second_plans >>
  /\ IterAfterPull

SecondPullStop ==
  /\ SecondLive
  /\ ~FinalOutputsReached(second_finalOutputs)
  /\ ~shouldContinue(second_iterations)
  /\ LET stopped == Stop(second_intermediateSteps)
         started == OnFirstStep(second_hooks, second_iterations)
     IN IF stopped.kind = "throw"
          THEN /\ second_pc' = "threw"
               /\ second_error' = stopped.error
               /\ second_hooks' = [started EXCEPT !.handleChainError = @ + 1]
               /\ UNCHANGED << second_finalOutputs, second_yielded >>
          ELSE /\ second_pc' = "suspended"
               /\ second_finalOutputs' = SetFinalOutputs(stopped.output)
               /\ second_yielded' = Append(second_yielded, stopped.output)
               /\ second_hooks' = Notified(started, stopped)
               /\ UNCHANGED second_error
  /\ UNCHANGED << treeVars, executor, constructed, agentPlan, callVars,
                  second_intermediateSteps, second_iterations, second_plans,
                  second_returned >>
  /\ IterAfterPull

SecondPullStep ==
  /\ SecondLive
  /\ ~FinalOutputsReached(second_finalOutputs)
  /\ shouldContinue(second_iterations)
  /\ \E outcome \in Plan(second_intermediateSteps) :
       LET nextStepOutput == TakeNextStep(nameToToolMap, outcome)
           after == ProcessNextStepOutput(nextStepOutput, second_intermediateSteps)
           started == OnFirstStep(second_hooks, second_iterations)
       IN /\ agentPlan' = agentPlan @@ (Len(second_intermediateSteps) :> outcome)
          /\ second_plans' = Append(second_plans, outcome)
          /\ IF nextStepOutput.kind = "throw"
               THEN /\ second_pc' = "threw"
                    /\ second_error' = nextStepOutput.error
                    /\ second_hooks' = [started EXCEPT !.handleChainError = @ + 1]
                    /\ UNCHANGED << second_intermediateSteps, second_iterations,
                                    second_finalOutputs, second_yielded >>
               ELSE /\ second_pc' = "suspended"
                    /\ second_intermediateSteps' = after.intermediateSteps
                    /\ second_finalOutputs' = after.finalOutputs
                    /\ second_iterations' = second_iterations + 1
                    /\ second_yielded' = Append(second_yielded, after.output)
                    /\ second_hooks' = Notified(started, after)
                    /\ UNCHANGED second_error
  /\ UNCHANGED << treeVars, executor, constructed, callVars, second_returned >>
  /\ IterAfterPull

NextTwo ==
  \/ Constructor
  \/ PullFinal
  \/ PullStop
  \/ PullStep
  \/ SecondPullFinal
  \/ SecondPullStop
  \/ SecondPullStep

SpecTwo == InitTwo /\ [][NextTwo]_vars

-----------------------------------------------------------------------------
(* checkTreeShaking: the state machine *)

runVars == << executor, constructed, agentPlan, callVars, iterVars, secondVars >>

(* checkTreeShaking is about to be called in a package. *)
InitTree ==
  /\ executor = Undefined
  /\ NoRun
  /\ second_pc = "absent"
  /\ packageJson \in PackageJSONs
  /\ TreeIdle

(* console.log(...args) with the function console.log holds: the original *)
(* prints the line, the function of a pass collects it.                   *)
ConsoleLogPrints(fn, out, lines) == IF fn.kind = "original" THEN out \o lines ELSE out

(* A pass of the for loop up to its await: sideEffects is emptied, *)
(* console.log replaced, and rollup called for the entrypoint.     *)
BeginPass(list, pass) ==
  /\ \E outcome \in Rollup(list[pass]) :
       rollupOf' = rollupOf @@ (list[pass] :> outcome)
  /\ tree_pc' = "building"
  /\ entrypoint' = pass
  /\ logged' = 0
  /\ sideEffects' = << >>
  /\ consoleLog' = PassConsoleLog(pass)
  /\ builds' = Append(builds, << >>)
  /\ UNCHANGED << stdout, exitCode >>

(* After the loop: console.log is given back, the reports with side *)
(* effects are printed and the process exits with 1, or the pass    *)
(* message is printed.                                              *)
Conclude(map) ==
  LET failed == \E i \in 1..Len(map) : map[i].value.hasSideEffects
      restored == OriginalConsoleLog
  IN /\ consoleLog' = restored
     /\ stdout' = ConsoleLogPrints(restored, stdout,
                     IF failed THEN ReportLines(map)
                     ELSE << << "Tree shaking checks passed!" >> >>)
     /\ exitCode' = IF failed THEN << 1 >> ELSE exitCode
     /\ tree_pc' = IF failed THEN "exited" ELSE "passed"
     /\ UNCHANGED << rollupOf, entrypoint, logged, sideEffects, builds >>

(* checkTreeShaking() up to its first build, or to its end when the *)
(* package has no entrypoint.                                       *)
TreeStart ==
  /\ tree_pc = "idle"
  /\ LET listed == ListEntrypoints(packageJson)
     IN IF listed.kind = "throw"
          THEN /\ tree_pc' = "threw"
               /\ UNCHANGED << rollupOf, entrypoints, entrypoint, logged, consoleLog,
                               sideEffects, stdout, exitCode, builds >>
          ELSE /\ entrypoints' = listed.value
               /\ IF Len(listed.value) = 0 THEN Conclude(reportMap)
                  ELSE BeginPass(listed.value, 1)
  /\ UNCHANGED << runVars, packageJson, reportMap >>

(* rollup, during a build, calls console.log. *)
RollupLogs ==
  /\ tree_pc = "building"
  /\ LET outcome == rollupOf[entrypoints[entrypoint]]
         args == outcome.calls[logged + 1]
     IN /\ outcome.kind = "resolves"
        /\ logged < Len(outcome.calls)
        /\ logged' = logged + 1
        /\ sideEffects' = IF consoleLog.kind = "pass" THEN Collect(sideEffects, args)
                          ELSE sideEffects
        /\ stdout' = ConsoleLogPrints(consoleLog, stdout, << Join(args, << " " >>) >>)
        /\ builds' = [builds EXCEPT ![Len(builds)] = Append(@, Join(args, << " " >>))]
  /\ UNCHANGED << runVars, packageJson, rollupOf, tree_pc, entrypoints, entrypoint,
                  consoleLog, reportMap, exitCode >>

(* The build resolves: the report of the entrypoint is set, and the loop *)
(* goes to its next pass or to the end of checkTreeShaking.              *)
RollupResolves ==
  /\ tree_pc = "building"
  /\ LET outcome == rollupOf[entrypoints[entrypoint]]
         report == [log |-> sideEffects, hasSideEffects |-> Len(sideEffects) > 0]
         map == MapSet(reportMap, entrypoints[entrypoint], report)
     IN /\ outcome.kind = "resolves"
        /\ logged = Len(outcome.calls)
        /\ reportMap' = map
        /\ IF entrypoint < Len(entrypoints) THEN BeginPass(entrypoints, entrypoint + 1)
           ELSE Conclude(map)
  /\ UNCHANGED << runVars, packageJson, entrypoints >>

(* The build rejects: checkTreeShaking rejects where it stands. *)
RollupRejects ==
  /\ tree_pc = "building"
  /\ rollupOf[entrypoints[entrypoint]].kind = "rejects"
  /\ tree_pc' = "threw"
  /\ UNCHANGED << runVars, packageJson, rollupOf, entrypoints, entrypoint, logged,
                  consoleLog, sideEffects, reportMap, stdout, exitCode, builds >>

NextTree ==
  \/ TreeStart
  \/ RollupLogs
  \/ RollupResolves
  \/ RollupRejects

SpecTree == InitTree /\ [][NextTree]_vars

-----------------------------------------------------------------------------
(* Vocabulary of the properties *)

PrimaryKey == AgentReturnValues[1]

Settled(pc) == pc \in {"returned", "threw"}

IterFinished == finalOutputs # Undefined

IterDrained == iter_pc \in {"done", "threw"}

Last(seq) == seq[Len(seq)]

NeverFinishes(plans) == \A i \in 1..Len(plans) : plans[i].kind # "finish"

AlwaysRaises(plans) == \A i \in 1..Len(plans) : plans[i].kind = "raise"

OneActionEach(plans) ==
  \A i \in 1..Len(plans) : plans[i].kind = "actions" /\ Len(plans[i].actions) = 1

(* The action names, in whatever letter case, a tool flagged returnDirect. *)
NamesReturnDirectTool(action) ==
  \E i \in 1..Len(executor.tools) :
    /\ executor.tools[i].returnDirect
    /\ ToLowerCase(executor.tools[i].name) = ToLowerCase(action.tool)

NoReturnDirectAction(plans) ==
  \A i \in 1..Len(plans) :
    plans[i].kind = "actions" =>
      \A j \in 1..Len(plans[i].actions) : ~NamesReturnDirectTool(plans[i].actions[j])

(* The tool each mode invokes for an action, in a sequence of at most one. *)
CallInvokes(action) ==
  IF action.tool = "_Exception" THEN << >>
  ELSE LET found == toolsByName(ToLowerCase(action.tool))
       IN IF Len(found) = 0 THEN << >> ELSE << found[Len(found)] >>

IterInvokes(action) ==
  LET found == SelectSeq(nameToToolMap, LAMBDA t : t.name = action.tool)
  IN IF Len(found) = 0 THEN << >> ELSE << found[Len(found)] >>

(* How the invocation of an action ends in a mode: "ok", "inputError", *)
(* "error", or "none" when no tool is invoked.                         *)
Invocation(invoked, action) ==
  IF Len(invoked) = 0 THEN "none" ELSE ToolCall(invoked[1], action.toolInput).kind

RECURSIVE StepsOf(_)
(* The number of steps the cycles of these plan calls produce when none fails. *)
StepsOf(plans) ==
  IF Len(plans) = 0 THEN 0
  ELSE StepsOf(Tail(plans))
         + (CASE plans[1].kind = "actions" -> Len(plans[1].actions)
              [] plans[1].kind = "raise" -> 1
              [] OTHER -> 0)

RECURSIVE ConcatBatches(_)
(* The steps of the yielded step batches, in the order yielded. *)
ConcatBatches(values) ==
  IF Len(values) = 0 THEN << >>
  ELSE values[1].intermediateSteps \o ConcatBatches(Tail(values))

IsStepBatch(value) == DOMAIN value = {"intermediateSteps"}

-----------------------------------------------------------------------------
(* C1 *)

ForcedStopAfterBudget(plans, output, history) ==
  /\ Len(plans) = executor.maxIterations
  /\ output[PrimaryKey] = StoppedMessage
  /\ OneActionEach(plans) => Len(history) = executor.maxIterations

-----------------------------------------------------------------------------
(* C2 *)

(* C2: once _call has settled and the iterator is drained, the two runs    *)
(* have ended the same way: both with a result or both with an error, the  *)
(* same result (the same error), and the same history of steps.            *)
C2_CallAndIteratorAgree ==
  (Settled(call_pc) /\ IterDrained) =>
    /\ (call_pc = "returned") <=> IterFinished
    /\ call_result = finalOutputs
    /\ call_error = iter_error
    /\ steps = intermediateSteps

-----------------------------------------------------------------------------
(* C3 *)

(* The step is a successful invocation of a returnDirect tool. *)
ReturnDirectSucceeded(invoked, step) ==
  /\ Invocation(invoked, step.action) = "ok"
  /\ invoked[1].returnDirect

(* C3: in either mode, a step in which a returnDirect tool was invoked     *)
(* successfully is the last step of the history, the run has ended with a  *)
(* result, and the result holds that step's observation under the primary  *)
(* key.                                                                    *)
C3_ReturnDirectEndsRun ==
  /\ \A i \in 1..Len(steps) :
       ReturnDirectSucceeded(CallInvokes(steps[i].action), steps[i]) =>
         /\ i = Len(steps)
         /\ call_pc = "returned"
         /\ call_result[PrimaryKey] = steps[i].observation
  /\ \A i \in 1..Len(intermediateSteps) :
       ReturnDirectSucceeded(IterInvokes(intermediateSteps[i].action), intermediateSteps[i]) =>
         /\ i = Len(intermediateSteps)
         /\ IterFinished
         /\ finalOutputs[PrimaryKey] = intermediateSteps[i].observation

-----------------------------------------------------------------------------
(* C4 *)

(* C4: once the constructor has run, it threw if and only if the agent is  *)
(* multi-action and some tool is returnDirect; and when it threw, no run   *)
(* was ever started on the executor.                                       *)
C4_ConstructorRejectsMultiWithReturnDirect ==
  /\ constructed # "pending" =>
       ((constructed = "threw") <=>
          (/\ executor.agentType = "multi"
           /\ \E i \in 1..Len(executor.tools) : executor.tools[i].returnDirect))
  /\ constructed # "ok" =>
       /\ call_pc = "idle" /\ call_plans = << >>
       /\ iter_pc = "created" /\ iter_plans = << >> /\ yielded = << >>

(* The constructor threw for a multi-action agent whose second tool is *)
(* returnDirect.                                                       *)
C4_Witness ==
  /\ constructed = "threw"
  /\ executor.agentType = "multi"
  /\ ~executor.tools[1].returnDirect
  /\ executor.tools[2].returnDirect

-----------------------------------------------------------------------------
(* C5 *)

RecoveredWith(plans, history, observation) ==
  /\ Len(history) = Len(plans)
  /\ \A i \in 1..Len(history) :
       /\ history[i].action.tool = "_Exception"
       /\ history[i].observation = observation

(* C5: with handleParsingErrors a fixed string and a decision-maker whose  *)
(* plan always raises the output-parsing error, in both modes each cycle   *)
(* adds one step on the tool "_Exception" whose observation is the fixed   *)
(* string, no error reaches the caller for it, and the run makes no more   *)
(* than maxIterations cycles and, once ended with a result, exactly that   *)
(* many.                                                                   *)
C5_FixedStringRecovery ==
  executor.handleParsingErrors = "string" =>
    /\ AlwaysRaises(call_plans) =>
         /\ RecoveredWith(call_plans, steps, FixedString)
         /\ Len(call_plans) <= executor.maxIterations
         /\ call_pc = "returned" => Len(call_plans) = executor.maxIterations
    /\ AlwaysRaises(iter_plans) =>
         /\ RecoveredWith(iter_plans, intermediateSteps, FixedString)
         /\ Len(iter_plans) <= executor.maxIterations
         /\ IterFinished => Len(iter_plans) = executor.maxIterations

-----------------------------------------------------------------------------
(* C6 *)

(* No registered tool has this name, in whatever letter case. *)
Unregistered(name) ==
  /\ name # "_Exception"
  /\ \A i \in 1..Len(executor.tools) :
       ToLowerCase(executor.tools[i].name) # ToLowerCase(name)

InvalidToolObservation(name) ==
  name \o " is not a valid tool, try another available tool: "
    \o JoinNames([i \in 1..Len(executor.tools) |-> executor.tools[i].name])

(* The last plan call asked for exactly one action, on an unregistered tool. *)
AskedUnregistered(plans) ==
  /\ Len(plans) > 0
  /\ Last(plans).kind = "actions"
  /\ Len(Last(plans).actions) = 1
  /\ Unregistered(Last(plans).actions[1].tool)

(* C6: in both modes, every step on an unregistered tool carries the        *)
(* observation that names the tool and lists the valid tool names, joined   *)
(* by commas; and a cycle asking for an unregistered tool raises nothing    *)
(* and leaves its step last in the history.                                 *)
C6_UnregisteredToolObservation ==
  /\ \A i \in 1..Len(steps) :
       Unregistered(steps[i].action.tool) =>
         steps[i].observation = InvalidToolObservation(steps[i].action.tool)
  /\ \A i \in 1..Len(intermediateSteps) :
       Unregistered(intermediateSteps[i].action.tool) =>
         intermediateSteps[i].observation
           = InvalidToolObservation(intermediateSteps[i].action.tool)
  /\ AskedUnregistered(call_plans) =>
       /\ call_error \notin {"OutputParserException", "ToolInputParsingException"}
       /\ Len(steps) > 0 /\ Last(steps).action = Last(call_plans).actions[1]
  /\ AskedUnregistered(iter_plans) =>
       /\ iter_error \notin {"OutputParserException", "ToolInputParsingException"}
       /\ Len(intermediateSteps) > 0
       /\ Last(intermediateSteps).action = Last(iter_plans).actions[1]

-----------------------------------------------------------------------------
(* C7 *)

CarriesHistory(output, history) ==
  IF executor.returnIntermediateSteps
    THEN /\ "intermediateSteps" \in DOMAIN output
         /\ output.intermediateSteps = history
    ELSE "intermediateSteps" \notin DOMAIN output

(* C7: with returnIntermediateSteps set, the result of a run, in either    *)
(* mode and however the run ended, holds under intermediateSteps the whole *)
(* history of the run in order (for the iterator: the step batches it      *)
(* yielded, concatenated); with returnIntermediateSteps unset the result   *)
(* has no such key.                                                        *)
C7_ResultCarriesHistory ==
  /\ call_pc = "returned" => CarriesHistory(call_result, steps)
  /\ IterFinished =>
       /\ CarriesHistory(finalOutputs, intermediateSteps)
       /\ intermediateSteps = ConcatBatches(SelectSeq(yielded, IsStepBatch))

(* With returnIntermediateSteps set, both modes have ended in their second *)
(* cycle by the returnDirect tool "stop", with the two steps of the run in *)
(* the result.                                                             *)
C7_Witness ==
  /\ executor.returnIntermediateSteps
  /\ call_pc = "returned"
  /\ Len(steps) = 2
  /\ call_result.intermediateSteps = steps
  /\ call_result[PrimaryKey] = "stop result for hi"
  /\ IterFinished
  /\ Len(intermediateSteps) = 2
  /\ finalOutputs.intermediateSteps = intermediateSteps
  /\ finalOutputs[PrimaryKey] = "stop result for hi"

-----------------------------------------------------------------------------
(* C8 *)

(* The last plan call asked for an action whose tool, once invoked, fails *)
(* with an execution error.                                               *)
ToolFailed(invokes(_), plans) ==
  /\ Len(plans) > 0
  /\ Last(plans).kind = "actions"
  /\ \E j \in 1..Len(Last(plans).actions) :
       Invocation(invokes(Last(plans).actions[j]), Last(plans).actions[j]) = "error"

(* C8: in both modes, a cycle in which a tool fails with an execution      *)
(* error ends the run with that error, and the history holds no step for   *)
(* an invocation that failed so.                                           *)
C8_ToolErrorIsFatal ==
  /\ ToolFailed(CallInvokes, call_plans) =>
       call_pc = "threw" /\ call_error = "tool failed"
  /\ ToolFailed(IterInvokes, iter_plans) =>
       iter_pc = "threw" /\ iter_error = "tool failed"
  /\ \A i \in 1..Len(steps) :
       Invocation(CallInvokes(steps[i].action), steps[i].action) # "error"
  /\ \A i \in 1..Len(intermediateSteps) :
       Invocation(IterInvokes(intermediateSteps[i].action), intermediateSteps[i].action)
         # "error"

-----------------------------------------------------------------------------
(* C9 *)

(* The last plan call raised the output-parsing error. *)
PlanRaised(plans) == Len(plans) > 0 /\ Last(plans).kind = "raise"

(* The last plan call asked for an action whose tool, once invoked, fails *)
(* with the tool-input-parsing error.                                     *)
ToolInputRejected(invokes(_), plans) ==
  /\ Len(plans) > 0
  /\ Last(plans).kind = "actions"
  /\ \E j \in 1..Len(Last(plans).actions) :
       Invocation(invokes(Last(plans).actions[j]), Last(plans).actions[j]) = "inputError"

Front(seq) == SubSeq(seq, 1, Len(seq) - 1)

(* C9: with handleParsingErrors = false, in both modes, a cycle whose plan  *)
(* call raises the output-parsing error, or one of whose tool calls raises  *)
(* the tool-input-parsing error, ends the run with that error: the history  *)
(* holds the steps of the earlier cycles only, there is no result, and the  *)
(* iterator yields nothing for the cycle.                                   *)
C9_ParsingErrorsRethrown ==
  executor.handleParsingErrors = "false" =>
    /\ PlanRaised(call_plans) =>
         /\ call_pc = "threw" /\ call_error = "OutputParserException"
         /\ call_result = Undefined
         /\ Len(steps) = StepsOf(Front(call_plans))
    /\ ToolInputRejected(CallInvokes, call_plans) =>
         /\ call_pc = "threw" /\ call_error = "ToolInputParsingException"
         /\ call_result = Undefined
         /\ Len(steps) = StepsOf(Front(call_plans))
    /\ PlanRaised(iter_plans) =>
         /\ iter_pc = "threw" /\ iter_error = "OutputParserException"
         /\ finalOutputs = Undefined
         /\ Len(intermediateSteps) = StepsOf(Front(iter_plans))
         /\ Len(yielded) = Len(iter_plans) - 1
    /\ ToolInputRejected(IterInvokes, iter_plans) =>
         /\ iter_pc = "threw" /\ iter_error = "ToolInputParsingException"
         /\ finalOutputs = Undefined
         /\ Len(intermediateSteps) = StepsOf(Front(iter_plans))
         /\ Len(yielded) = Len(iter_plans) - 1

(* With handleParsingErrors = false, _call has thrown the tool-input-parsing *)
(* error in its second cycle, keeping the one step of the first, and the     *)
(* iterator has thrown it in its second pull.                                *)
C9_Witness ==
  /\ executor.handleParsingErrors = "false"
  /\ call_pc = "threw"
  /\ call_error = "ToolInputParsingException"
  /\ Len(call_plans) = 2
  /\ Len(steps) = 1
  /\ iter_pc = "threw"
  /\ iter_error = "ToolInputParsingException"
  /\ Len(iter_plans) = 2
  /\ Len(yielded) = 1

-----------------------------------------------------------------------------
(* C10 *)

(* C10: the iterator yields one value per cycle it has run; once the run   *)
(* has ended with a result (a Finish, a returnDirect tool, the budget used *)
(* up), the last value yielded is that result and every value before it is *)
(* the batch of steps of its cycle; until then every value yielded is the  *)
(* batch of steps of its cycle.                                            *)
C10_FinalPullYieldsResult ==
  /\ IterFinished =>
       /\ Len(yielded) > 0
       /\ Last(yielded) = finalOutputs
       /\ \A i \in 1..(Len(yielded) - 1) : IsStepBatch(yielded[i])
       /\ ConcatBatches(Front(yielded)) = intermediateSteps
  /\ ~IterFinished =>
       /\ \A i \in 1..Len(yielded) : IsStepBatch(yielded[i])
       /\ ConcatBatches(yielded) = intermediateSteps
       /\ iter_pc # "threw" => Len(yielded) = Len(iter_plans)

-----------------------------------------------------------------------------
(* C11 *)

(* C11: once the iterator holds its final outputs, a further pull makes no *)
(* plan call and no tool call (no plan is logged, the history and the      *)
(* yielded values stay as they are), raises nothing, and ends the          *)
(* generator returning those same final outputs.  A yielded FinishResult   *)
(* always comes with the final outputs set, so the pull after it never     *)
(* finds them missing.                                                     *)
C11_PullAfterFinalValue ==
  /\ [](\A i \in 1..Len(yielded) : ~IsStepBatch(yielded[i]) => IterFinished)
  /\ [][IterFinished =>
          /\ iter_plans' = iter_plans
          /\ iter_seen' = iter_seen
          /\ intermediateSteps' = intermediateSteps
          /\ yielded' = yielded
          /\ finalOutputs' = finalOutputs
          /\ iter_error' = NoError
          /\ iter_pc = "suspended" =>
               /\ iter_pc' = "done"
               /\ iter_returned' = finalOutputs]_vars

(* The agent returned a Finish in the second cycle, after one step; the next *)
(* pull has ended the generator with the final outputs as its return value.  *)
C11_Witness ==
  /\ iter_pc = "done"
  /\ Len(iter_plans) = 2
  /\ Last(iter_plans).kind = "finish"
  /\ Len(intermediateSteps) = 1
  /\ Len(yielded) = 2
  /\ iter_returned = finalOutputs
  /\ iter_returned[PrimaryKey] = "done"
  /\ iter_error = NoError

-----------------------------------------------------------------------------
(* C12 *)

(* C12: a run that has reached its result, by a Finish, a returnDirect tool *)
(* or the forced stop, with returnIntermediateSteps true or false, has      *)
(* notified the end-of-run hook (handleAgentEnd, notified where the result  *)
(* is assembled) exactly once; this holds for _call and for the iterator.   *)
C12_EndOfRunHookOnce ==
  /\ call_pc = "returned" => call_hooks.handleAgentEnd = 1
  /\ IterFinished => iter_hooks.handleAgentEnd = 1

-----------------------------------------------------------------------------
(* C13 *)

InvalidStoppingMethod == "Invalid stopping method"

(* C13: an earlyStoppingMethod other than "force" does not make the         *)
(* constructor throw, and the error it stands for is raised exactly when    *)
(* the stopped response is asked for: _call has rejected with it if and     *)
(* only if it left the loop with the budget used up, the iterator has       *)
(* thrown it if and only if it threw after as many completed cycles as the  *)
(* budget allows; a run that ends within its budget ends as it would under  *)
(* "force".  Under "force" the error never occurs.                          *)
C13_StoppingMethodResolvedLate ==
  /\ executor.earlyStoppingMethod = "force" =>
       /\ call_error # InvalidStoppingMethod
       /\ iter_error # InvalidStoppingMethod
  /\ executor.earlyStoppingMethod # "force" =>
       /\ constructed = "threw" => executor.agentType = "multi"
       /\ call_error = InvalidStoppingMethod <=>
            (CallSettled /\ call_iterations = executor.maxIterations)
       /\ call_error = InvalidStoppingMethod =>
            call_pc = "threw" /\ call_result = Undefined
       /\ iter_error = InvalidStoppingMethod <=>
            /\ iter_pc = "threw"
            /\ iterations = executor.maxIterations
            /\ Len(yielded) = Len(iter_plans)
       /\ iter_error = InvalidStoppingMethod => ~IterFinished

(* Under earlyStoppingMethod "generate" and a budget of two, both modes ran *)
(* two cycles without error, recorded their steps, and failed only when the *)
(* stopped response was asked for.                                          *)
C13_Witness ==
  /\ executor.earlyStoppingMethod = "generate"
  /\ executor.maxIterations = 2
  /\ call_pc = "threw"
  /\ call_error = InvalidStoppingMethod
  /\ Len(call_plans) = 2
  /\ Len(steps) = 2
  /\ iter_pc = "threw"
  /\ iter_error = InvalidStoppingMethod
  /\ Len(yielded) = 2
  /\ Len(intermediateSteps) = 2

-----------------------------------------------------------------------------
(* C14 *)

(* The FinishResults among the values the iterator has yielded. *)
YieldedResults == {i \in 1..Len(yielded) : ~IsStepBatch(yielded[i])}

(* C14: a run has at most one FinishResult (_call holds a result only once *)
(* it has returned, the iterator has yielded at most one), and once the    *)
(* result is set it never changes, no step is appended to the history and  *)
(* no plan call or tool dispatch is made for that run.                     *)
C14_SingleFinishResult ==
  /\ [](/\ call_result # Undefined <=> call_pc = "returned"
        /\ Cardinality(YieldedResults) <= 1
        /\ YieldedResults # {} => IterFinished)
  /\ [][/\ call_pc = "returned" =>
             /\ call_result' = call_result
             /\ steps' = steps
             /\ call_plans' = call_plans
             /\ call_orders' = call_orders
        /\ IterFinished =>
             /\ finalOutputs' = finalOutputs
             /\ intermediateSteps' = intermediateSteps
             /\ iter_plans' = iter_plans
             /\ YieldedResults' = YieldedResults]_vars

(* Both modes ended on the agent's Finish in the first cycle with budget *)
(* left over; the iterator was then pulled once more and only returned.  *)
C14_Witness ==
  /\ executor.maxIterations = 2
  /\ call_pc = "returned"
  /\ Len(call_plans) = 1
  /\ call_result[PrimaryKey] = "done"
  /\ iter_pc = "done"
  /\ Len(iter_plans) = 1
  /\ YieldedResults = {1}
  /\ finalOutputs[PrimaryKey] = "done"

-----------------------------------------------------------------------------
(* C15 *)

(* C15: each counter is 0 until the first cycle, never decreases, and a     *)
(* step of the run adds one to it exactly when the step is a completed      *)
(* non-terminal cycle (a plan call was made, steps were appended, the run   *)
(* goes on without a result), and leaves it as it is on a terminal cycle (a *)
(* Finish, a returnDirect tool, the forced stop) and on a failed one; for   *)
(* the local iterations of _call and the iterator's iterations field.       *)
C15_IterationCounter ==
  /\ [](/\ Len(call_plans) = 0 => call_iterations = 0
        /\ Len(iter_plans) = 0 => iterations = 0)
  /\ [][/\ call_iterations' =
             IF call_plans' # call_plans /\ call_pc' = "running"
               THEN call_iterations + 1 ELSE call_iterations
        /\ iterations' =
             IF iter_plans' # iter_plans /\ iter_pc' = "suspended"
                  /\ finalOutputs' = Undefined
               THEN iterations + 1 ELSE iterations]_vars

-----------------------------------------------------------------------------
(* C16 *)

IsPrefix(s, t) == Len(s) <= Len(t) /\ SubSeq(t, 1, Len(s)) = s

(* The history the k-th plan call must be given: the steps of the cycles *)
(* before it, as they stand in the history now.                          *)
HistoryBefore(k, plans, history) ==
  SubSeq(history, 1, StepsOf(SubSeq(plans, 1, k - 1)))

(* C16: no step of a run removes or alters a step of its history (the      *)
(* history before is a prefix of the history after), and the history given *)
(* to the k-th plan call is the steps of cycles 1..k-1 in order, each with *)
(* its observation: it is that prefix of the present history, and for the  *)
(* iterator the concatenation of the first k-1 batches it yielded.         *)
C16_HistoryAppendOnly ==
  /\ [](/\ Len(call_seen) = Len(call_plans)
        /\ Len(iter_seen) = Len(iter_plans)
        /\ \A k \in 1..Len(call_seen) :
             call_seen[k] = HistoryBefore(k, call_plans, steps)
        /\ \A k \in 1..Len(iter_seen) :
             /\ iter_seen[k] = HistoryBefore(k, iter_plans, intermediateSteps)
             /\ iter_seen[k] = ConcatBatches(SubSeq(yielded, 1, k - 1)))
  /\ [][/\ IsPrefix(steps, steps')
        /\ IsPrefix(intermediateSteps, intermediateSteps')]_vars

(* A multi-action agent asked for two tools in the first cycle; the second *)
(* plan call of each mode was given the two steps of that cycle, and the   *)
(* second cycle appended two more.                                         *)
C16_Witness ==
  /\ executor.agentType = "multi"
  /\ Len(call_seen) = 2
  /\ Len(call_seen[2]) = 2
  /\ Len(steps) = 4
  /\ steps[1] # steps[3]
  /\ Len(iter_seen) = 2
  /\ Len(iter_seen[2]) = 2
  /\ Len(intermediateSteps) = 4

-----------------------------------------------------------------------------
(* C17 *)

(* The steps the k-th cycle put in the history. *)
CycleSteps(k, plans, history) ==
  SubSeq(history, StepsOf(SubSeq(plans, 1, k - 1)) + 1, StepsOf(SubSeq(plans, 1, k)))

(* The k-th cycle ran to its end: its steps are in the history. *)
CycleCompleted(k, plans, history) == StepsOf(SubSeq(plans, 1, k)) <= Len(history)

InActionOrder(k, plans, history) ==
  LET actions == plans[k].actions
      batch == CycleSteps(k, plans, history)
  IN /\ Len(batch) = Len(actions)
     /\ \A j \in 1..Len(actions) : batch[j].action = actions[j]

(* C17: for every cycle whose plan call returned actions and that ran to   *)
(* its end, the steps recorded for the cycle are one per action, in the    *)
(* order the actions were returned in; in _call this holds whichever order *)
(* the concurrently dispatched tool calls completed in, and it holds for   *)
(* the iterator.                                                           *)
C17_StepsInActionOrder ==
  /\ \A k \in 1..Len(call_plans) :
       (call_plans[k].kind = "actions" /\ CycleCompleted(k, call_plans, steps)) =>
         /\ call_orders[k] \in CompletionOrders(Len(call_plans[k].actions))
         /\ InActionOrder(k, call_plans, steps)
  /\ \A k \in 1..Len(iter_plans) :
       (iter_plans[k].kind = "actions"
          /\ CycleCompleted(k, iter_plans, intermediateSteps)) =>
         InActionOrder(k, iter_plans, intermediateSteps)

(* The agent asked for two different tool calls at once, the second of them *)
(* completed first in _call, and each mode recorded the two steps.          *)
C17_Witness ==
  /\ Len(call_plans) >= 1
  /\ call_plans[1].kind = "actions"
  /\ Len(call_plans[1].actions) = 2
  /\ call_plans[1].actions[1] # call_plans[1].actions[2]
  /\ call_orders[1] = << 2, 1 >>
  /\ Len(steps) >= 2
  /\ steps[1].action = call_plans[1].actions[1]
  /\ Len(intermediateSteps) >= 2
  /\ intermediateSteps[2].action = iter_plans[1].actions[2]

-----------------------------------------------------------------------------
(* C18 *)

(* The last plan call returned several actions. *)
MultiAction(plans) ==
  /\ Len(plans) > 0
  /\ Last(plans).kind = "actions"
  /\ Len(Last(plans).actions) > 1

(* One of the tool calls of the last cycle fails with a failure the policy *)
(* does not recover from: an execution error, or the tool-input-parsing    *)
(* error under handleParsingErrors = false.                                *)
FailsUnrecoverably(invokes(_), plans) ==
  \/ ToolFailed(invokes, plans)
  \/ executor.handleParsingErrors = "false" /\ ToolInputRejected(invokes, plans)

(* C18: in both modes, a cycle of several actions one of whose tool calls  *)
(* fails unrecoverably ends the run with that failure: there is no result, *)
(* and the history holds the steps of the earlier cycles only, none of the *)
(* failed cycle, not those of the calls that succeeded either.             *)
C18_FailureAbortsCycle ==
  /\ (MultiAction(call_plans) /\ FailsUnrecoverably(CallInvokes, call_plans)) =>
       /\ call_pc = "threw"
       /\ call_error \in {"tool failed", "ToolInputParsingException"}
       /\ call_result = Undefined
       /\ Len(steps) = StepsOf(Front(call_plans))
  /\ (MultiAction(iter_plans) /\ FailsUnrecoverably(IterInvokes, iter_plans)) =>
       /\ iter_pc = "threw"
       /\ iter_error \in {"tool failed", "ToolInputParsingException"}
       /\ finalOutputs = Undefined
       /\ Len(intermediateSteps) = StepsOf(Front(iter_plans))

-----------------------------------------------------------------------------
(* C19 *)

(* The registered tools an action names when letter case is ignored. *)
NamedIgnoringCase(action) ==
  SelectSeq(executor.tools, LAMBDA t : ToLowerCase(t.name) = ToLowerCase(action.tool))

(* The step recorded for its action is the step of the tool the action *)
(* names when letter case is ignored.                                  *)
InvokedIgnoringCase(step) ==
  LET named == NamedIgnoringCase(step.action)
      outcome == ToolCall(Last(named), step.action.toolInput)
  IN (Len(named) > 0 /\ outcome.kind = "ok") => step.observation = outcome.observation

(* The step at place i names a returnDirect tool when letter case is ignored. *)
NamesDirectAt(history, i) ==
  LET named == NamedIgnoringCase(history[i].action)
  IN Len(named) > 0 /\ Last(named).returnDirect

(* C19: in both modes a tool is looked up by its name ignoring letter case: *)
(* every step recorded for an action that names a registered tool, in       *)
(* whatever letter case, holds what that tool returned for the input (not   *)
(* the invalid-tool text), and when the tool is returnDirect the step is    *)
(* the last of the history and the run has ended with a result.             *)
C19_LookupIgnoresCase ==
  /\ \A i \in 1..Len(steps) :
       /\ InvokedIgnoringCase(steps[i])
       /\ NamesDirectAt(steps, i) => (i = Len(steps) /\ call_pc = "returned")
  /\ \A i \in 1..Len(intermediateSteps) :
       /\ InvokedIgnoringCase(intermediateSteps[i])
       /\ NamesDirectAt(intermediateSteps, i) =>
            (i = Len(intermediateSteps) /\ IterFinished)

-----------------------------------------------------------------------------
(* C20 *)

InvalidToolInput == "Invalid or incomplete tool input. Please try again."

(* The last cycle ran to its end and recorded, for each of its actions whose *)
(* tool call raised the tool-input-parsing error, a step for that action     *)
(* with the fallback text as its observation.                                *)
RecoveredToolInput(invokes(_), plans, history) ==
  LET k == Len(plans)
      actions == plans[k].actions
      batch == CycleSteps(k, plans, history)
  IN /\ CycleCompleted(k, plans, history)
     /\ Len(batch) = Len(actions)
     /\ \A j \in 1..Len(actions) :
          Invocation(invokes(actions[j]), actions[j]) = "inputError" =>
            batch[j] = [action |-> actions[j], observation |-> InvalidToolInput]

(* C20: with handleParsingErrors = true, in both modes, a cycle one of     *)
(* whose tool calls raises the tool-input-parsing error records the step   *)
(* with the fallback text for the action, the error does not reach the     *)
(* caller, and the run continues: the cycle does not end it, so a result,  *)
(* if there is one, is that of the forced stop that follows.               *)
C20_ToolInputErrorRecovered ==
  executor.handleParsingErrors = "true" =>
    /\ ToolInputRejected(CallInvokes, call_plans) =>
         /\ RecoveredToolInput(CallInvokes, call_plans, steps)
         /\ call_error # "ToolInputParsingException"
         /\ call_pc = "returned" => call_result[PrimaryKey] = StoppedMessage
    /\ ToolInputRejected(IterInvokes, iter_plans) =>
         /\ RecoveredToolInput(IterInvokes, iter_plans, intermediateSteps)
         /\ iter_error # "ToolInputParsingException"
         /\ IterFinished => finalOutputs[PrimaryKey] = StoppedMessage

-----------------------------------------------------------------------------
(* C21 *)

(* What its consumer has seen of an iterator after as many pulls. *)
SamePulls == Len(yielded) = Len(second_yielded) /\ iter_pc = second_pc

Shorter(s, t) == IF Len(s) <= Len(t) THEN Len(s) ELSE Len(t)

Agree(s, t) == SubSeq(s, 1, Shorter(s, t)) = SubSeq(t, 1, Shorter(s, t))

FirstPulled == << iter_pc, yielded, iter_plans >>' # << iter_pc, yielded, iter_plans >>

SecondPulled ==
  << second_pc, second_yielded, second_plans >>' # << second_pc, second_yielded, second_plans >>

-----------------------------------------------------------------------------
(* C22 *)

(* C22: in a run of streamIterator the run-start hook (handleChainStart,  *)
(* notified by onFirstStep) has not fired before the first pull, and has  *)
(* fired exactly once from the first pull on, whatever maxIterations is   *)
(* and however many pulls follow; no plan call is made before it.         *)
C22_RunStartHookOnce ==
  /\ iter_pc = "created" =>
       /\ iter_hooks.handleChainStart = 0
       /\ Len(iter_plans) = 0
  /\ iter_pc # "created" => iter_hooks.handleChainStart = 1

-----------------------------------------------------------------------------
(* C23 *)

(* The last plan call asked for a returnDirect tool whose call failed. *)
DirectToolFailed(invokes(_), plans) ==
  /\ Len(plans) > 0
  /\ Last(plans).kind = "actions"
  /\ \E j \in 1..Len(Last(plans).actions) :
       LET action == Last(plans).actions[j]
           invoked == invokes(action)
       IN /\ Len(invoked) > 0
          /\ invoked[1].returnDirect
          /\ Invocation(invoked, action) # "ok"

(* C23: in both modes, a cycle in which the call of a returnDirect tool    *)
(* failed does not end the run with what was recorded for the failure: if  *)
(* the run has a result after such a last cycle, it is the result of the   *)
(* forced stop, not the step's observation.                                *)
C23_ReturnDirectOnlyOnSuccess ==
  /\ (DirectToolFailed(CallInvokes, call_plans) /\ call_pc = "returned") =>
       /\ call_result[PrimaryKey] = StoppedMessage
       /\ call_iterations = Len(call_plans)
  /\ (DirectToolFailed(IterInvokes, iter_plans) /\ IterFinished) =>
       /\ finalOutputs[PrimaryKey] = StoppedMessage
       /\ Len(yielded) = Len(iter_plans) + 1

-----------------------------------------------------------------------------
(* C24 *)

(* checkTreeShaking went through every build and its reports. *)
TreeFinished == tree_pc \in {"passed", "exited"}

(* The line, once trimmed, starts with the mark of a side effect. *)
Marked(line) == StartsWith(Trim(line), FirstSideEffectIn)

RECURSIVE MarkedLog(_)
(* The marked lines among the lines of a build, each with its line end. *)
MarkedLog(lines) ==
  IF Len(lines) = 0 THEN << >>
  ELSE (IF Marked(lines[1]) THEN lines[1] \o << "\n" >> ELSE << >>)
         \o MarkedLog(Tail(lines))

(* The builds that resolved. *)
CompletedBuilds == IF TreeFinished THEN Len(builds) ELSE Len(builds) - 1

(* The build a report is taken from: the last one of its entrypoint. *)
IsBuildOf(i, key) ==
  /\ entrypoints[i] = key
  /\ \A j \in (i + 1)..CompletedBuilds : entrypoints[j] # key

====
